---- MODULE Spec2Model ----
(***************************************************************************)
(* Quantizer (src/src/runners/quantizer.py): the constructor, _init_model, *)
(* run, _prepare, _load_masks, _load_best_model and _quantize, one action  *)
(* per statement group.  The Trainer and model_utils collaborators are not *)
(* part of the available source; they are modelled from the specification. *)
(***************************************************************************)
EXTENDS Integers, Sequences, FiniteSets

\* ---------------------------------------------------------------- bounds
NumParams == 2      \* prunable parameters of the model (params_all)
MaxEpochs == 2      \* epochs of the QAT training loop
MaxAcc == 2         \* accuracies are drawn from 1..MaxAcc

VARIABLES
    static, check_acc,          \* constructor flags
    ckptExists, ckptKeys, ckptAcc,  \* the checkpoint file
    numEpochs,                  \* config["EPOCHS"]
    pc, exc,                    \* position in __init__/run, raised exception
    qret, lret,                 \* where _quantize / _load_masks return to
    mask, orig_acc,             \* self.mask, self.orig_acc
    bufs, weights,              \* self.model: mask buffers, weight version
    fused, qconfig, prepared, observer, bnFrozen,   \* self.model: stage
    training,                   \* self.model.training (train or eval mode)
    epoch, bestAcc, bestWeights, bestKeys,          \* Trainer state
    quantized_model, scripted_model, acc,           \* locals of run
    out,                        \* files written and lines logged, in order
    hist                        \* framework calls made so far, in order

inputs == <<static, check_acc, ckptExists, ckptKeys, ckptAcc, numEpochs>>
ctrl == <<pc, exc, qret, lret>>
stage == <<fused, qconfig, prepared, observer, bnFrozen, training>>
trainer == <<epoch, bestAcc, bestWeights, bestKeys>>
results == <<quantized_model, scripted_model, acc, out>>
vars == <<inputs, ctrl, mask, orig_acc, bufs, weights, stage, trainer,
          results, hist>>

\* ------------------------------------------------------------ data model
params_all == 1..NumParams
Kinds == {"weight", "weight_orig", "weight_mask"}
AllKeys == params_all \X Kinds
Accs == 1..MaxAcc

NoModel == [exists |-> FALSE, weights |-> <<"none", 0>>, maskBufs |-> {},
            fromPrepared |-> "no", reparamAtConvert |-> FALSE]

\* next((name for name in state_dict if "mask" in name), None) is not None
is_pruned(state_dict) == \E k \in state_dict : k[2] = "weight_mask"

\* whether the pruning reparameterization is applied to the live model
Reparameterized(b) == \E p \in params_all : b[p] # "none"

\* keys of model.state_dict() for the given mask buffers
StateDictKeys(b) ==
    {<<p, "weight">> : p \in {q \in params_all : b[q] = "none"}}
    \cup {k \in AllKeys : b[k[1]] # "none" /\ k[2] # "weight"}

\* model_utils.dummy_pruning(params_all): a mask buffer for every parameter
dummy_pruning(b) == [p \in params_all |-> IF b[p] = "none" THEN "dummy" ELSE b[p]]

\* model_utils.remove_pruning_reparameterization(params_all)
remove_pruning_reparameterization(b) == [p \in params_all |-> "none"]

\* model_utils.get_masks(model): the mask buffers of the model by name
get_masks(b) == [p \in {q \in params_all : b[q] # "none"} |-> b[p]]

\* mutant of install_masks: no named buffer is found in self.mask
install_masks_none(b, m) == b

\* the loop of _load_masks: every named buffer found in self.mask is replaced
install_masks(b, m) ==
    [p \in params_all |-> IF b[p] # "none" /\ p \in DOMAIN m THEN m[p] ELSE b[p]]

\* the masks of self.mask are the model's applied buffers
MasksApplied == \A p \in DOMAIN mask : bufs[p] = mask[p]

\* ------------------------------------------------------------------ Init
Init ==
    /\ static \in BOOLEAN
    /\ check_acc \in BOOLEAN
    /\ ckptExists \in BOOLEAN
    /\ ckptKeys \in SUBSET AllKeys
    /\ ckptAcc \in Accs
    /\ numEpochs \in 1..MaxEpochs
    /\ pc = "init_load"
    /\ exc = "none"
    /\ qret = "none"
    /\ lret = "none"
    /\ mask = << >>
    /\ orig_acc = 0
    /\ bufs = [p \in params_all |-> "none"]
    /\ weights = <<"init", 0>>
    /\ fused = FALSE
    /\ qconfig = FALSE
    /\ prepared = "no"
    /\ observer = FALSE
    /\ bnFrozen = FALSE
    /\ training = TRUE
    /\ epoch = 0
    /\ bestAcc = 0
    /\ bestWeights = <<"none", 0>>
    /\ bestKeys = {}
    /\ quantized_model = NoModel
    /\ scripted_model = NoModel
    /\ acc = <<"unset", 0>>
    /\ out = << >>
    /\ hist = << >>

\* an uncaught exception: nothing catches it, the constructor or run ends
Throw(kind) ==
    /\ pc' = "raised"
    /\ exc' = kind
    /\ UNCHANGED <<qret, lret>>

Goto(l) ==
    /\ pc' = l
    /\ UNCHANGED <<exc, qret, lret>>

\* ------------------------------------------------- __init__ / _init_model
\* lines 146-153: torch.load, state_dict, orig_acc, is_pruned
init_model_load ==
    /\ pc = "init_load"
    /\ IF ckptExists
       THEN /\ orig_acc' = ckptAcc
            /\ hist' = Append(hist, "torch.load")
            /\ Goto("init_dummy")
       ELSE /\ Throw("framework")
            /\ UNCHANGED <<orig_acc, hist>>
    /\ UNCHANGED <<inputs, mask, bufs, weights, stage, trainer, results>>

\* lines 155-157: dummy pruning when the checkpoint is pruned
init_model_dummy ==
    /\ pc = "init_dummy"
    /\ IF is_pruned(ckptKeys)
       THEN /\ bufs' = dummy_pruning(bufs)
            /\ hist' = Append(hist, "dummy_pruning")
       ELSE UNCHANGED <<bufs, hist>>
    /\ Goto("init_params")
    /\ UNCHANGED <<inputs, mask, orig_acc, weights, stage, trainer, results>>

\* mutant of init_model_params: keys that do not match are skipped silently
init_model_params_lenient ==
    /\ pc = "init_params"
    /\ weights' = <<"ckpt", 0>>
    /\ bufs' = [p \in params_all |->
                  IF bufs[p] # "none" THEN "ckpt" ELSE "none"]
    /\ hist' = Append(hist, "initialize_params")
    /\ Goto("init_masks")
    /\ UNCHANGED <<inputs, mask, orig_acc, stage, trainer, results>>

\* lines 159-160: model_utils.initialize_params(self.model, state_dict)
init_model_params ==
    /\ pc = "init_params"
    /\ IF ckptKeys = StateDictKeys(bufs)
       THEN /\ weights' = <<"ckpt", 0>>
            /\ bufs' = [p \in params_all |->
                          IF bufs[p] # "none" THEN "ckpt" ELSE "none"]
            /\ hist' = Append(hist, "initialize_params")
            /\ Goto("init_masks")
       ELSE /\ Throw("framework")
            /\ UNCHANGED <<weights, bufs, hist>>
    /\ UNCHANGED <<inputs, mask, orig_acc, stage, trainer, results>>

\* mutant of init_model_masks: the masks are read but self.mask is not assigned
init_model_masks_unassigned ==
    /\ pc = "init_masks"
    /\ IF is_pruned(ckptKeys)
       THEN /\ hist' = Append(hist, "get_masks")
            /\ Goto("init_remove")
       ELSE /\ UNCHANGED hist
            /\ Goto("constructed")
    /\ UNCHANGED <<inputs, mask, orig_acc, bufs, weights, stage, trainer, results>>

\* lines 164-168: self.mask = model_utils.get_masks(self.model)
init_model_masks ==
    /\ pc = "init_masks"
    /\ IF is_pruned(ckptKeys)
       THEN /\ mask' = get_masks(bufs)
            /\ hist' = Append(hist, "get_masks")
            /\ Goto("init_remove")
       ELSE /\ UNCHANGED <<mask, hist>>
            /\ Goto("constructed")
    /\ UNCHANGED <<inputs, orig_acc, bufs, weights, stage, trainer, results>>

\* mutant of init_model_remove: the reparameterization is left applied
init_model_remove_skipped ==
    /\ pc = "init_remove"
    /\ Goto("constructed")
    /\ UNCHANGED <<inputs, mask, orig_acc, bufs, weights, stage, trainer,
                   results, hist>>

\* line 169: model_utils.remove_pruning_reparameterization(self.params_all)
init_model_remove ==
    /\ pc = "init_remove"
    /\ bufs' = remove_pruning_reparameterization(bufs)
    /\ hist' = Append(hist, "remove_reparam")
    /\ Goto("constructed")
    /\ UNCHANGED <<inputs, mask, orig_acc, weights, stage, trainer, results>>

\* ------------------------------------------------------------------- run
\* line 83: self.trainer.warmup_one_iter() on the freshly loaded model
run_warmup ==
    /\ pc = "constructed"
    /\ hist' = Append(hist, "warmup")
    /\ Goto("run_save_orig")
    /\ UNCHANGED <<inputs, mask, orig_acc, bufs, weights, stage, trainer, results>>

\* mutant of run_save_orig: run goes on to calibration without self._prepare()
run_save_orig_no_prepare ==
    /\ pc = "run_save_orig"
    /\ out' = out \o << <<"save", "orig_model", 0>>, <<"log", "num", orig_acc>> >>
    /\ Goto("run_calibrate")
    /\ UNCHANGED <<inputs, mask, orig_acc, bufs, weights, stage, trainer,
                   quantized_model, scripted_model, acc, hist>>

\* mutant of run_save_orig: the local acc is logged instead of self.orig_acc
run_save_orig_logs_acc ==
    /\ pc = "run_save_orig"
    /\ out' = out \o << <<"save", "orig_model", 0>>, <<"log">> \o acc >>
    /\ Goto("prepare_fuse")
    /\ UNCHANGED <<inputs, mask, orig_acc, bufs, weights, stage, trainer,
                   quantized_model, scripted_model, acc, hist>>

\* lines 84-87: save orig_model.pth, log the checkpoint's accuracy and the size
run_save_orig ==
    /\ pc = "run_save_orig"
    /\ out' = out \o << <<"save", "orig_model", 0>>, <<"log", "num", orig_acc>> >>
    /\ Goto("prepare_fuse")
    /\ UNCHANGED <<inputs, mask, orig_acc, bufs, weights, stage, trainer,
                   quantized_model, scripted_model, acc, hist>>

\* line 173: self.model.fuse_model(); fusion replaces module instances, so
\* buffers attached to the replaced modules are lost
prepare_fuse ==
    /\ pc = "prepare_fuse"
    /\ fused' = TRUE
    /\ bufs' = [p \in params_all |-> "none"]
    /\ hist' = Append(hist, "fuse_model")
    /\ Goto("prepare_qconfig")
    /\ UNCHANGED <<inputs, mask, orig_acc, weights, qconfig, prepared, observer,
                   bnFrozen, training, trainer, results>>

\* line 176: self.model.qconfig = get_default_qat_qconfig(self.backend)
prepare_qconfig ==
    /\ pc = "prepare_qconfig"
    /\ qconfig' = TRUE
    /\ Goto("prepare_prepare")
    /\ UNCHANGED <<inputs, mask, orig_acc, bufs, weights, fused, prepared,
                   observer, bnFrozen, training, trainer, results, hist>>

\* mutant of prepare_prepare: _prepare returns without self._load_masks()
prepare_prepare_no_masks ==
    /\ pc = "prepare_prepare"
    /\ prepared' = IF static THEN "static" ELSE "qat"
    /\ observer' = TRUE
    /\ hist' = Append(hist, IF static THEN "prepare" ELSE "prepare_qat")
    /\ Goto("run_calibrate")
    /\ UNCHANGED <<inputs, mask, orig_acc, bufs, weights, fused, qconfig,
                   bnFrozen, training, trainer, results>>

\* lines 179-185: prepare (static) or prepare_qat, then self._load_masks()
prepare_prepare ==
    /\ pc = "prepare_prepare"
    /\ prepared' = IF static THEN "static" ELSE "qat"
    /\ observer' = TRUE
    /\ hist' = Append(hist, IF static THEN "prepare" ELSE "prepare_qat")
    /\ pc' = "load_masks"
    /\ lret' = "run_calibrate"
    /\ UNCHANGED <<exc, qret>>
    /\ UNCHANGED <<inputs, mask, orig_acc, bufs, weights, fused, qconfig,
                   bnFrozen, training, trainer, results>>

\* ----------------------------------------------------------- _load_masks
\* mutant of load_masks: the emptiness test of self.mask is missing
load_masks_unguarded ==
    /\ pc = "load_masks"
    /\ Goto("load_masks_dummy")
    /\ UNCHANGED <<inputs, mask, orig_acc, bufs, weights, stage, trainer,
                   results, hist>>

\* lines 189-190: if not self.mask: return
load_masks ==
    /\ pc = "load_masks"
    /\ IF DOMAIN mask = {} THEN Goto(lret) ELSE Goto("load_masks_dummy")
    /\ UNCHANGED <<inputs, mask, orig_acc, bufs, weights, stage, trainer,
                   results, hist>>

\* line 192: model_utils.dummy_pruning(self.params_all)
load_masks_dummy ==
    /\ pc = "load_masks_dummy"
    /\ bufs' = dummy_pruning(bufs)
    /\ hist' = Append(hist, "dummy_pruning")
    /\ Goto("load_masks_install")
    /\ UNCHANGED <<inputs, mask, orig_acc, weights, stage, trainer, results>>

\* mutant of load_masks_install: the assignment is reversed, the buffer
\* replaces the entry of self.mask
load_masks_install_reversed ==
    /\ pc = "load_masks_install"
    /\ mask' = [p \in DOMAIN mask |-> bufs[p]]
    /\ Goto(lret)
    /\ UNCHANGED <<inputs, orig_acc, bufs, weights, stage, trainer, results, hist>>

\* lines 193-197: each named buffer found in self.mask is set to its mask
load_masks_install ==
    /\ pc = "load_masks_install"
    /\ bufs' = install_masks(bufs, mask)
    /\ Goto(lret)
    /\ UNCHANGED <<inputs, mask, orig_acc, weights, stage, trainer, results, hist>>

\* ------------------------------------------------- calibrate or train (run)
\* mutant of run_calibrate: the test of self.static is inverted
run_calibrate_inverted ==
    /\ pc = "run_calibrate"
    /\ IF ~static
       THEN /\ hist' = Append(hist, "warmup")
            /\ Goto("run_quantize")
       ELSE /\ hist' = Append(hist, "trainer.run")
            /\ Goto("trainer_train")
    /\ UNCHANGED <<inputs, mask, orig_acc, bufs, weights, stage, trainer, results>>

\* lines 94-100: static: one calibration warmup pass; else trainer.run starts
run_calibrate ==
    /\ pc = "run_calibrate"
    /\ IF static
       THEN /\ hist' = Append(hist, "warmup")
            /\ Goto("run_quantize")
       ELSE /\ hist' = Append(hist, "trainer.run")
            /\ Goto("trainer_train")
    /\ UNCHANGED <<inputs, mask, orig_acc, bufs, weights, stage, trainer, results>>

\* Trainer.run: one training epoch, in train mode, updates the weights
trainer_train ==
    /\ pc = "trainer_train"
    /\ epoch < numEpochs
    /\ epoch' = epoch + 1
    /\ weights' = <<"epoch", epoch + 1>>
    /\ training' = TRUE
    /\ hist' = Append(hist, "train")
    /\ Goto("trainer_test")
    /\ UNCHANGED <<inputs, mask, orig_acc, bufs, fused, qconfig, prepared,
                   observer, bnFrozen, bestAcc, bestWeights, bestKeys, results>>

\* Trainer.test_one_epoch: the pre-test hook (self._quantize) runs first
trainer_test ==
    /\ pc = "trainer_test"
    /\ pc' = "quantize_remove"
    /\ qret' = "trainer_eval"
    /\ UNCHANGED <<exc, lret>>
    /\ UNCHANGED <<inputs, mask, orig_acc, bufs, weights, stage, trainer,
                   results, hist>>

\* Trainer: the evaluation pass; the best model so far is checkpointed
trainer_eval ==
    /\ pc = "trainer_eval"
    /\ \E a \in Accs :
         IF a > bestAcc
         THEN /\ bestAcc' = a
              /\ bestWeights' = weights
              /\ bestKeys' = StateDictKeys(bufs)
         ELSE UNCHANGED <<bestAcc, bestWeights, bestKeys>>
    /\ hist' = Append(hist, "test")
    /\ IF epoch < numEpochs THEN Goto("trainer_train") ELSE Goto("run_disable_observer")
    /\ UNCHANGED <<inputs, mask, orig_acc, bufs, weights, stage, epoch, results>>

\* line 101: self.model.apply(torch.quantization.disable_observer)
run_disable_observer ==
    /\ pc = "run_disable_observer"
    /\ observer' = FALSE
    /\ hist' = Append(hist, "disable_observer")
    /\ Goto("run_freeze_bn")
    /\ UNCHANGED <<inputs, mask, orig_acc, bufs, weights, fused, qconfig,
                   prepared, bnFrozen, training, trainer, results>>

\* mutant of run_freeze_bn: run goes on to _quantize without _load_best_model
run_freeze_bn_no_reload ==
    /\ pc = "run_freeze_bn"
    /\ bnFrozen' = TRUE
    /\ hist' = Append(hist, "freeze_bn_stats")
    /\ Goto("run_quantize")
    /\ UNCHANGED <<inputs, mask, orig_acc, bufs, weights, fused, qconfig,
                   prepared, observer, training, trainer, results>>

\* line 102: self.model.apply(torch.nn.intrinsic.qat.freeze_bn_stats)
run_freeze_bn ==
    /\ pc = "run_freeze_bn"
    /\ bnFrozen' = TRUE
    /\ hist' = Append(hist, "freeze_bn_stats")
    /\ Goto("load_best_model")
    /\ UNCHANGED <<inputs, mask, orig_acc, bufs, weights, fused, qconfig,
                   prepared, observer, training, trainer, results>>

\* lines 104, 199-201: self._load_best_model() is self.trainer.resume()
load_best_model ==
    /\ pc = "load_best_model"
    /\ IF bestKeys = StateDictKeys(bufs)
       THEN /\ weights' = bestWeights
            /\ hist' = Append(hist, "resume")
            /\ Goto("run_quantize")
       ELSE /\ Throw("framework")
            /\ UNCHANGED <<weights, hist>>
    /\ UNCHANGED <<inputs, mask, orig_acc, bufs, stage, trainer, results>>

\* -------------------------------------------------------------- _quantize
\* line 107: quantized_model = self._quantize(self.model)
run_quantize ==
    /\ pc = "run_quantize"
    /\ pc' = "quantize_remove"
    /\ qret' = "run_check_acc"
    /\ UNCHANGED <<exc, lret>>
    /\ UNCHANGED <<inputs, mask, orig_acc, bufs, weights, stage, trainer,
                   results, hist>>

\* mutant of quantize_remove: the reparameterization is not removed
quantize_remove_skipped ==
    /\ pc = "quantize_remove"
    /\ Goto("quantize_convert")
    /\ UNCHANGED <<inputs, mask, orig_acc, bufs, weights, stage, trainer,
                   results, hist>>

\* lines 205-206: if self.mask: remove_pruning_reparameterization(params_all)
quantize_remove ==
    /\ pc = "quantize_remove"
    /\ IF DOMAIN mask # {}
       THEN /\ bufs' = remove_pruning_reparameterization(bufs)
            /\ hist' = Append(hist, "remove_reparam")
       ELSE UNCHANGED <<bufs, hist>>
    /\ Goto("quantize_convert")
    /\ UNCHANGED <<inputs, mask, orig_acc, weights, stage, trainer, results>>

\* mutant of quantize_convert: the conversion is made in place (inplace=True)
quantize_convert_inplace ==
    /\ pc = "quantize_convert"
    /\ training' = FALSE
    /\ prepared' = "converted"
    /\ quantized_model' =
         [exists |-> TRUE, weights |-> weights,
          maskBufs |-> {p \in params_all : bufs[p] # "none"},
          fromPrepared |-> prepared,
          reparamAtConvert |-> Reparameterized(bufs)]
    /\ hist' = Append(hist, "convert")
    /\ Goto("quantize_masks")
    /\ UNCHANGED <<inputs, mask, orig_acc, bufs, weights, fused, qconfig,
                   observer, bnFrozen, trainer, scripted_model, acc, out>>

\* lines 209-210: torch.quantization.convert(model.eval(), inplace=False):
\* model.eval() puts the passed model in eval mode, convert works on a copy
quantize_convert ==
    /\ pc = "quantize_convert"
    /\ training' = FALSE
    /\ quantized_model' =
         [exists |-> TRUE, weights |-> weights,
          maskBufs |-> {p \in params_all : bufs[p] # "none"},
          fromPrepared |-> prepared,
          reparamAtConvert |-> Reparameterized(bufs)]
    /\ hist' = Append(hist, "convert")
    /\ Goto("quantize_masks")
    /\ UNCHANGED <<inputs, mask, orig_acc, bufs, weights, fused, qconfig,
                   prepared, observer, bnFrozen, trainer, scripted_model,
                   acc, out>>

\* mutant of quantize_masks: the masks are not set again after conversion
quantize_masks_skipped ==
    /\ pc = "quantize_masks"
    /\ Goto("quantize_return")
    /\ UNCHANGED <<inputs, mask, orig_acc, bufs, weights, stage, trainer,
                   results, hist>>

\* lines 213-214: if self.mask: self._load_masks()
quantize_masks ==
    /\ pc = "quantize_masks"
    /\ IF DOMAIN mask # {}
       THEN /\ pc' = "load_masks"
            /\ lret' = "quantize_return"
            /\ UNCHANGED <<exc, qret>>
       ELSE Goto("quantize_return")
    /\ UNCHANGED <<inputs, mask, orig_acc, bufs, weights, stage, trainer,
                   results, hist>>

\* line 216: return quantized_model
quantize_return ==
    /\ pc = "quantize_return"
    /\ Goto(qret)
    /\ UNCHANGED <<inputs, mask, orig_acc, bufs, weights, stage, trainer,
                   results, hist>>

\* ------------------------------------------------- measure and save (run)
\* lines 109-117: profiler is not defined in the module, so the check_acc
\* branch raises NameError; otherwise a warmup pass and acc = "None"
run_check_acc ==
    /\ pc = "run_check_acc"
    /\ IF check_acc
       THEN /\ Throw("NameError")
            /\ UNCHANGED <<acc, hist>>
       ELSE /\ hist' = Append(hist, "warmup")
            /\ acc' = <<"None", 0>>
            /\ Goto("run_save_quantized")
    /\ UNCHANGED <<inputs, mask, orig_acc, bufs, weights, stage, trainer,
                   quantized_model, scripted_model, out>>

\* lines 118-121: save quantized_model.pth, log acc and the size
run_save_quantized ==
    /\ pc = "run_save_quantized"
    /\ out' = out \o << <<"save", "quantized_model", 0>>, <<"log">> \o acc >>
    /\ Goto("run_script")
    /\ UNCHANGED <<inputs, mask, orig_acc, bufs, weights, stage, trainer,
                   quantized_model, scripted_model, acc, hist>>

\* line 124: scripted_model = torch.jit.script(quantized_model)
run_script ==
    /\ pc = "run_script"
    /\ scripted_model' = quantized_model
    /\ hist' = Append(hist, "script")
    /\ Goto("run_check_scripted")
    /\ UNCHANGED <<inputs, mask, orig_acc, bufs, weights, stage, trainer,
                   quantized_model, acc, out>>

\* lines 128-136: as lines 109-117, for the scripted model
run_check_scripted ==
    /\ pc = "run_check_scripted"
    /\ IF check_acc
       THEN /\ Throw("NameError")
            /\ UNCHANGED <<acc, hist>>
       ELSE /\ hist' = Append(hist, "warmup")
            /\ acc' = <<"None", 0>>
            /\ Goto("run_save_scripted")
    /\ UNCHANGED <<inputs, mask, orig_acc, bufs, weights, stage, trainer,
                   quantized_model, scripted_model, out>>

\* lines 137-140: save scripted_model.pth, log acc and the size
run_save_scripted ==
    /\ pc = "run_save_scripted"
    /\ out' = out \o << <<"save", "scripted_model", 0>>, <<"log">> \o acc >>
    /\ Goto("done")
    /\ UNCHANGED <<inputs, mask, orig_acc, bufs, weights, stage, trainer,
                   quantized_model, scripted_model, acc, hist>>

\* ------------------------------------------------------- framework errors
\* steps that call into torch, model_utils or the Trainer; none is guarded by
\* a try block, so an error raised there ends the constructor or run
FrameworkSteps ==
    {"init_dummy", "init_masks", "init_remove", "constructed", "run_save_orig",
     "prepare_fuse", "prepare_qconfig", "prepare_prepare", "load_masks_dummy",
     "run_calibrate", "trainer_train", "trainer_eval", "run_disable_observer",
     "run_freeze_bn", "load_best_model", "quantize_remove", "quantize_convert",
     "run_check_acc", "run_save_quantized", "run_script", "run_check_scripted",
     "run_save_scripted"}

\* mutant of framework_error: a handler deletes the artifacts written so far
framework_error_cleanup ==
    /\ pc \in FrameworkSteps
    /\ Throw("framework")
    /\ out' = << >>
    /\ UNCHANGED <<inputs, mask, orig_acc, bufs, weights, stage, trainer,
                   quantized_model, scripted_model, acc, hist>>

framework_error ==
    /\ pc \in FrameworkSteps
    /\ Throw("framework")
    /\ UNCHANGED <<inputs, mask, orig_acc, bufs, weights, stage, trainer,
                   results, hist>>

Next ==
    \/ init_model_load
    \/ init_model_dummy
    \/ init_model_params
    \/ init_model_masks
    \/ init_model_remove
    \/ run_warmup
    \/ run_save_orig
    \/ prepare_fuse
    \/ prepare_qconfig
    \/ prepare_prepare
    \/ load_masks
    \/ load_masks_dummy
    \/ load_masks_install
    \/ run_calibrate
    \/ trainer_train
    \/ trainer_test
    \/ trainer_eval
    \/ run_disable_observer
    \/ run_freeze_bn
    \/ load_best_model
    \/ run_quantize
    \/ quantize_remove
    \/ quantize_convert
    \/ quantize_masks
    \/ quantize_return
    \/ run_check_acc
    \/ run_save_quantized
    \/ run_script
    \/ run_check_scripted
    \/ run_save_scripted
    \/ framework_error

Spec == Init /\ [][Next]_vars

\* ---------------------------------------------------------------- claims
\* pc = l means: the statement group at l is the next to execute, so a state
\* with pc = l is the state that statement group runs in.

Occurs(e) == \E i \in 1..Len(hist) : hist[i] = e
Ordered(a, b) == \A i, j \in 1..Len(hist) : hist[i] = a /\ hist[j] = b => i < j
Count(e) == Cardinality({i \in 1..Len(hist) : hist[i] = e})
Pruned == is_pruned(ckptKeys)
HasMasks == DOMAIN mask # {}
AllReparameterized == \A p \in params_all : bufs[p] # "none"

\* the prepare stage of run has completed for the selected mode
PrepareDone ==
    /\ fused
    /\ qconfig
    /\ prepared = (IF static THEN "static" ELSE "qat")
    /\ Occurs("fuse_model")
    /\ MasksApplied
    /\ HasMasks => AllReparameterized

\* C1: whenever the calibration warmup pass (static) or any step of
\* trainer.run (QAT: training epoch, pre-test hook, evaluation) is about to
\* execute, the model has been fused, has its qconfig, has been prepared for
\* the selected mode and has had its masks re-installed.
C1_PrepareBeforeCalibrate ==
    pc \in {"run_calibrate", "trainer_train", "trainer_test", "trainer_eval"}
        => PrepareDone

C1_Witness ==
    /\ pc = "trainer_train"
    /\ epoch = 1
    /\ HasMasks
    /\ ~static

\* C2: every torch.quantization.convert call, from run or from the Trainer's
\* pre-test hook, executes with the pruning reparameterization removed, and
\* for a pruned checkpoint a removal is the latest reparameterization call
\* before it.
C2_ConvertAfterRemoval ==
    /\ pc = "quantize_convert" =>
          /\ ~Reparameterized(bufs)
          /\ HasMasks => hist[Len(hist)] = "remove_reparam"
    /\ quantized_model.exists => ~quantized_model.reparamAtConvert

C2_Witness ==
    /\ pc = "quantize_convert"
    /\ qret = "trainer_eval"
    /\ epoch = 2
    /\ HasMasks

\* C3 as stated: for a pruned checkpoint the reparameterization is absent
\* during fusion, conversion, the checkpoint load and the best-model reload.
C3_Original ==
    (Pruned /\ pc \in {"prepare_fuse", "quantize_convert", "init_params",
                       "load_best_model"})
        => ~Reparameterized(bufs)

\* C3 amended: for a pruned checkpoint the reparameterization is absent
\* during fusion and conversion, and it is applied to every parameter during
\* both weight loads (the checkpoint load of _init_model and the best-model
\* reload of _load_best_model).
C3_AbsentAtFuseConvert_AppliedAtLoads ==
    Pruned =>
        /\ pc \in {"prepare_fuse", "quantize_convert"} => ~Reparameterized(bufs)
        /\ pc \in {"init_params", "load_best_model"} => AllReparameterized

C3_Witness ==
    /\ Pruned
    /\ pc = "load_best_model"
    /\ Occurs("initialize_params")
    /\ Occurs("fuse_model")
    /\ Occurs("convert")

\* the points of run where the model is evaluated or trained
EvalPoint ==
    \/ pc = "constructed"
    \/ pc = "run_calibrate" /\ static
    \/ pc \in {"trainer_train", "trainer_eval", "run_check_acc",
               "run_check_scripted"}

\* C4 as stated: with a non-empty mask mapping the masks are applied buffers
\* of the model at every evaluation or training point, the baseline warmup
\* pass included.
C4_Original == (HasMasks /\ EvalPoint) => (MasksApplied /\ AllReparameterized)

\* C4 amended: with a non-empty mask mapping the masks are applied buffers
\* of the model at every evaluation or training point after the prepare
\* stage; at the baseline warmup pass the reparameterization is removed and
\* the masks live only in the mask mapping.
C4_MasksAppliedAfterPrepare ==
    (HasMasks /\ EvalPoint) =>
        IF pc = "constructed"
        THEN ~Reparameterized(bufs)
        ELSE MasksApplied /\ AllReparameterized

C4_Witness ==
    /\ HasMasks
    /\ pc = "run_check_scripted"
    /\ ~static
    /\ epoch = 2

\* C5 as stated: for a pruned checkpoint the quantized model returned by
\* _quantize has every mask key among its named buffers.
C5_Original ==
    (HasMasks /\ pc = "quantize_return")
        => DOMAIN mask \subseteq quantized_model.maskBufs

\* C5 amended: for a pruned checkpoint, when _quantize returns the masks
\* have been re-installed into the long-lived model (self.model), and the
\* returned quantized model has no mask buffer.
C5_MasksBackOnLiveModel ==
    (HasMasks /\ pc = "quantize_return") =>
        /\ quantized_model.exists
        /\ quantized_model.maskBufs = {}
        /\ MasksApplied
        /\ AllReparameterized

C5_Witness ==
    /\ HasMasks
    /\ pc = "quantize_return"
    /\ qret = "run_check_acc"

\* C6: with check_acc set, a run that no framework error interrupts ends
\* completed, with the three artifacts written and a numeric accuracy logged
\* for the quantized and for the scripted artifact.
C6_CheckAccCompletes ==
    (check_acc /\ pc \in {"done", "raised"} /\ exc # "framework") =>
        /\ pc = "done"
        /\ Len(out) = 6
        /\ out[3] = <<"save", "quantized_model", 0>>
        /\ out[4][2] = "num"
        /\ out[5] = <<"save", "scripted_model", 0>>
        /\ out[6][2] = "num"

\* what a static run without accuracy checking writes and logs, in order
ExpectedOut(a) ==
    << <<"save", "orig_model", 0>>, <<"log", "num", a>>,
       <<"save", "quantized_model", 0>>, <<"log", "None", 0>>,
       <<"save", "scripted_model", 0>>, <<"log", "None", 0>> >>

IsPrefix(u, v) == Len(u) <= Len(v) /\ \A i \in 1..Len(u) : u[i] = v[i]

\* C7: in static mode with accuracy checking off and an unpruned checkpoint
\* of accuracy a, the output is always a prefix of: save orig_model, log a,
\* save quantized_model, log None, save scripted_model, log None; a completed
\* run has written all of it, and no training or evaluation epoch is run.
C7_StaticNoAccOutput ==
    (static /\ ~check_acc /\ ~Pruned) =>
        /\ IsPrefix(out, ExpectedOut(ckptAcc))
        /\ pc = "done" => out = ExpectedOut(ckptAcc)
        /\ ~Occurs("test")
        /\ ~Occurs("train")

C7_Witness ==
    /\ static
    /\ ~check_acc
    /\ ~Pruned
    /\ ckptAcc = MaxAcc
    /\ pc = "done"

\* C8: for a checkpoint without a mask key, dummy pruning, mask extraction
\* and reparameterization removal are never invoked, the mask mapping is
\* empty and the reparameterization is never applied, in every state.
C8_UnprunedNeverTouchesMasks ==
    ~Pruned =>
        /\ ~HasMasks
        /\ ~Occurs("dummy_pruning")
        /\ ~Occurs("get_masks")
        /\ ~Occurs("remove_reparam")
        /\ ~Reparameterized(bufs)

C8_Witness ==
    /\ ~Pruned
    /\ pc = "quantize_return"
    /\ qret = "trainer_eval"
    /\ epoch = 2

\* C9: for a checkpoint with a mask key, when the constructor returns it has
\* applied the dummy reparameterization, then loaded the weights, then
\* extracted the masks, then removed the reparameterization; the mask
\* mapping is non-empty and the model's parameters are plain tensors.
C9_PrunedInit ==
    (Pruned /\ pc = "constructed") =>
        /\ hist = <<"torch.load", "dummy_pruning", "initialize_params",
                    "get_masks", "remove_reparam">>
        /\ HasMasks
        /\ ~Reparameterized(bufs)
        /\ weights = <<"ckpt", 0>>

C9_Witness ==
    /\ Pruned
    /\ pc = "constructed"

\* the statements of run after its own call of _quantize has returned
AfterFinalQuantize ==
    pc \in {"run_check_acc", "run_save_quantized", "run_script",
            "run_check_scripted", "run_save_scripted", "done"}

\* C10: in QAT mode every training and evaluation epoch precedes the
\* disabling of the observers, which precedes the freezing of the batch-norm
\* statistics, which precedes trainer.resume; the conversion made by run
\* happens after the reload and converts the reloaded best weights.
C10_QatOrder ==
    ~static =>
        /\ Ordered("train", "disable_observer")
        /\ Ordered("test", "disable_observer")
        /\ Ordered("disable_observer", "freeze_bn_stats")
        /\ Ordered("freeze_bn_stats", "resume")
        /\ Occurs("resume") => Occurs("freeze_bn_stats")
        /\ Occurs("freeze_bn_stats") => Occurs("disable_observer")
        /\ Occurs("disable_observer") =>
              Count("train") = numEpochs /\ Count("test") = numEpochs
        /\ (pc = "quantize_convert" /\ qret = "run_check_acc") =>
              Occurs("resume") /\ weights = bestWeights
        /\ AfterFinalQuantize =>
              /\ quantized_model.weights = bestWeights
              /\ \E i, j \in 1..Len(hist) :
                    i < j /\ hist[i] = "resume" /\ hist[j] = "convert"

C10_Witness ==
    /\ ~static
    /\ pc = "run_check_acc"
    /\ epoch = 2
    /\ bestWeights = <<"epoch", 1>>
    /\ quantized_model.weights = <<"epoch", 1>>

\* C11: in static mode trainer.run, training and evaluation epochs, observer
\* disabling, batch-norm freezing and trainer.resume never happen; the
\* calibrate stage is one warmup pass (the second of the run, after the
\* baseline one); the weights stay those loaded from the checkpoint and the
\* quantize stage converts exactly those.
C11_StaticCalibrateOnly ==
    static =>
        /\ ~Occurs("trainer.run")
        /\ ~Occurs("train")
        /\ ~Occurs("test")
        /\ ~Occurs("disable_observer")
        /\ ~Occurs("freeze_bn_stats")
        /\ ~Occurs("resume")
        /\ epoch = 0
        /\ observer = (prepared # "no")
        /\ ~bnFrozen
        /\ Occurs("initialize_params") => weights = <<"ckpt", 0>>
        /\ pc = "run_quantize" => Count("warmup") = 2
        /\ quantized_model.exists => quantized_model.weights = <<"ckpt", 0>>

C11_Witness ==
    /\ static
    /\ pc = "run_check_acc"
    /\ quantized_model.exists
    /\ Count("warmup") = 2

\* the artifacts written so far, in order
Saved == SelectSeq(out, LAMBDA e : e[1] = "save")

\* a raised exception has ended the run with the earlier artifacts on disk
RaisedKeepsArtifacts ==
    /\ exc # "none" <=> pc = "raised"
    /\ (pc = "raised" /\ Occurs("fuse_model")) =>
          Len(Saved) >= 1 /\ Saved[1] = <<"save", "orig_model", 0>>
    /\ (pc = "raised" /\ Occurs("script")) =>
          Saved = << <<"save", "orig_model", 0>>, <<"save", "quantized_model", 0>> >>

\* no step leaves a raised state, no step removes output, and the step that
\* raises writes and deletes nothing
RaiseStep ==
    /\ pc # "raised"
    /\ IsPrefix(out, out')
    /\ pc' = "raised" =>
          /\ exc' \in {"framework", "NameError"}
          /\ out' = out
          /\ hist' = hist

\* C12: an exception raised by any stage ends the run: no statement executes
\* after it, and every artifact written before it stays written (the output
\* only ever grows); a failure after the baseline stage leaves orig_model, a
\* failure after the quantized save leaves orig_model and quantized_model.
C12_RaiseEndsRunKeepsArtifacts == [](RaisedKeepsArtifacts) /\ [][RaiseStep]_vars

C12_Witness ==
    /\ pc = "raised"
    /\ exc = "framework"
    /\ Occurs("script")
    /\ Len(out) = 4

\* the checkpoint file exists and its keys are those of the model, dummy
\* pruned first when the checkpoint has a mask key
ValidCheckpoint ==
    LET fresh == [p \in params_all |-> "none"]
    IN  /\ ckptExists
        /\ ckptKeys = StateDictKeys(IF is_pruned(ckptKeys)
                                    THEN dummy_pruning(fresh) ELSE fresh)

\* C13: with a missing checkpoint file or checkpoint keys that do not match
\* the model, the constructor never returns: it gets no further than the
\* weight load, ends only by the framework's error, run never starts and
\* nothing is written.
C13_BadCheckpointFailsConstruction ==
    ~ValidCheckpoint =>
        /\ pc \in {"init_load", "init_dummy", "init_params", "raised"}
        /\ pc = "raised" => exc = "framework"
        /\ ~Occurs("initialize_params")
        /\ ~Occurs("warmup")
        /\ out = << >>
        /\ ~quantized_model.exists

C13_Witness ==
    /\ ckptExists
    /\ ~ValidCheckpoint
    /\ Pruned
    /\ Occurs("dummy_pruning")
    /\ pc = "raised"
    /\ exc = "framework"

\* the calls that apply or remove the reparameterization, in order
ReparamCalls ==
    SelectSeq(hist, LAMBDA e : e \in {"dummy_pruning", "remove_reparam"})

\* C14: for a pruned checkpoint the apply and remove calls alternate,
\* starting with an apply: every apply (in _init_model, in _load_masks)
\* executes with the reparameterization removed and every remove (in
\* _init_model, in _quantize) executes with it applied to every parameter.
C14_ApplyRemoveAlternate ==
    Pruned =>
        /\ \A i \in 1..Len(ReparamCalls) :
              ReparamCalls[i] =
                 (IF i % 2 = 1 THEN "dummy_pruning" ELSE "remove_reparam")
        /\ pc \in {"init_dummy", "load_masks_dummy"} => ~Reparameterized(bufs)
        /\ pc = "init_remove" => AllReparameterized
        /\ (pc = "quantize_remove" /\ HasMasks) => AllReparameterized
        /\ Reparameterized(bufs) <=> Len(ReparamCalls) % 2 = 1

C14_Witness ==
    /\ Pruned
    /\ ~static
    /\ epoch = 2
    /\ Len(ReparamCalls) = 9

\* the statements of the constructor
InitSteps == {"init_load", "init_dummy", "init_params", "init_masks", "init_remove"}

\* C16: once the constructor has returned, no step adds, removes or replaces
\* an entry of the mask mapping; at the end of run its keys are those the
\* constructor left: every parameter for a pruned checkpoint, none otherwise.
C16_MaskWrittenOnlyInInit ==
    /\ [][pc \notin InitSteps => mask' = mask]_vars
    /\ [](pc = "done" =>
            DOMAIN mask = (IF Pruned THEN params_all ELSE {}))

C16_Witness ==
    /\ Pruned
    /\ ~static
    /\ pc = "done"
    /\ DOMAIN mask = params_all

\* a statement of _quantize, or of _load_masks called by it, is next
InQuantize ==
    \/ pc \in {"quantize_remove", "quantize_convert", "quantize_masks",
               "quantize_return"}
    \/ pc \in {"load_masks", "load_masks_dummy", "load_masks_install"}
         /\ lret = "quantize_return"

\* the structure of the long-lived model, without its train/eval mode
LiveStructure == <<fused, qconfig, prepared, observer, bnFrozen>>

\* conversion works on a copy: the long-lived model is never a converted
\* model, each conversion starts from the fused, prepared float model, and
\* the masks are back on it when _quantize returns
NotInPlace ==
    /\ prepared \in {"no", "static", "qat"}
    /\ pc \in {"quantize_convert", "quantize_masks", "quantize_return"} =>
          fused /\ prepared = (IF static THEN "static" ELSE "qat")
    /\ quantized_model.exists =>
          quantized_model.fromPrepared = (IF static THEN "static" ELSE "qat")
    /\ pc = "quantize_return" => MasksApplied

\* C15 as stated: conversion is never in place, and no statement of
\* _quantize changes anything of the long-lived model but the pruning
\* reparameterization.
C15_Original ==
    /\ [](NotInPlace)
    /\ [][InQuantize => (stage' = stage /\ weights' = weights)]_vars

\* C15 amended: conversion is never in place, and the statements of
\* _quantize change nothing of the long-lived model but the pruning
\* reparameterization (removed, then re-applied) and its mode, which
\* model.eval() at line 209 sets to eval: the model is in eval mode when
\* _quantize returns.
C15_CopyConvertedLiveModelSetToEval ==
    /\ [](NotInPlace /\ (pc \in {"quantize_masks", "quantize_return"} => ~training))
    /\ [][InQuantize =>
            /\ LiveStructure' = LiveStructure
            /\ weights' = weights
            /\ training' # training => (pc = "quantize_convert" /\ ~training')]_vars

C15_Witness ==
    /\ pc = "quantize_return"
    /\ qret = "trainer_eval"
    /\ HasMasks
    /\ epoch = 2
    /\ Count("convert") = 2
    /\ prepared = "qat"
    /\ ~training
====
